---------------------------- MODULE Spec2Model ----------------------------
(***************************************************************************)
(* CrowdSense (src/crowdsense.py): the smoothing window, the threshold /   *)
(* alert state machine and the peak / off-peak tracker of CrowdSenseApp,   *)
(* together with the Qt main thread that runs its slots and the two worker *)
(* threads (VideoFrameThread, YoloDetectionThread) that feed it.           *)
(*                                                                         *)
(* The objects are records whose fields carry the names of the source.     *)
(* Every slot is an operator from the world (app, video_thread,            *)
(* yolo_thread) to the world after the slot; a slot that pumps the event   *)
(* loop (QApplication.processEvents) is cut at its pump points into        *)
(* segments, and the whole slot is the composition of its segments.        *)
(***************************************************************************)
EXTENDS Integers, Sequences, FiniteSets, TLC

VARIABLES
    app,            \* the CrowdSenseApp object (fields of __init__, 784-846)
    video_thread,   \* the VideoFrameThread object (398-403)
    yolo_thread,    \* the YoloDetectionThread object (437-445)
    events,         \* signals posted to the main thread, not yet delivered
    stack,          \* slots of the main thread that are inside processEvents
    pushed,         \* log: the raw counts appended since the history was last cleared
    seen,           \* log: <<smoothed count, video time>> applied since the last peak reset
    offered,        \* log: the number of frames handed to add_frame, where it is kept
    logging,        \* whether the two logs are kept (fixed by Init)
    pumping         \* whether events are delivered inside processEvents (fixed by Init)

vars == <<app, video_thread, yolo_thread, events, stack, pushed, seen, offered,
          logging, pumping>>

-----------------------------------------------------------------------------
(* Program constants *)

DefaultWindow == 24
DefaultThreshold == 10
SmoothingMin == 1
SmoothingMax == 60
ThresholdMin == 3
ThresholdMax == 50
ElapsedCap == 1000
\* float('inf') of offpeak_count: a value no count takes; LessThan reads it
INF == -1
\* Heatmap cells are kept in hundredths: Unit is the 1.0 the decaying grid
\* is capped at, the three factors are heatmap_decay (0.99),
\* heatmap_intensity (0.6) and heatmap_scale_factor (0.2) in hundredths
Unit == 100
HeatmapDecay == 99
HeatmapIntensity == 60
HeatmapScaleFactor == 20

-----------------------------------------------------------------------------
(* Bounds of the model *)

\* raw counts appended since the last clear (the log `pushed`)
MaxPushes == 2
\* records in threshold_history
MaxAlerts == 1
\* frames that advance video_time_ms since it was last set to 0
MaxLogTicks == 1
\* signals posted to the main thread and not yet delivered
MaxEvents == 1
\* frames handed to add_frame where they are counted
MaxOffers == 2
\* slots running inside the processEvents of another slot
MaxNesting == 1
\* calls of update_heatmap
MaxUpdates == 2
\* files written by export_heatmap
MaxExports == 1

\* people counts the detector reports
RawCounts == {0, 5}
\* positions the user drags the two sliders to (clamped by setValue)
WindowValues == {1, 2}
ThresholdValues == {3, 4, 5}
\* window sizes asked of the smoothing slider from outside its range
WindowRequests == {0, 61}
\* the frames of a video, in the order the capture yields them
FrameNames == <<"frame1", "frame2", "frame3", "frame4">>
\* the video files the user opens: 1 has 5x5 frames, 2 has 5x10 frames
Videos == {1, 2}
\* (x1, y1, x2, y2) of the person the detector finds in a frame: one whose
\* box ends at the bottom edge of the frame, with the feet under the last
\* row of the grid, and one whose feet are in the grid
BoxLists == { << <<0, 0, 2, 5>> >>, << <<0, 0, 2, 4>> >> }
\* wall-clock milliseconds between two frames
TickMs == 500
ElapsedValues == {TickMs, ElapsedCap}

-----------------------------------------------------------------------------
(* Pure helpers *)

Min(a, b) == IF a < b THEN a ELSE b
Max(a, b) == IF a > b THEN a ELSE b

RECURSIVE SumSeq(_)
SumSeq(s) == IF s = <<>> THEN 0 ELSE Head(s) + SumSeq(Tail(s))

\* Python round() of the float num/den: to the nearest integer, ties to even
RoundHalfEven(num, den) ==
    LET q == num \div den
        r == num % den
    IN  IF 2 * r < den THEN q
        ELSE IF 2 * r > den THEN q + 1
        ELSE IF q % 2 = 0 THEN q ELSE q + 1

\* round(np.mean(history)) for a non-empty history
RoundMean(h) == RoundHalfEven(SumSeq(h), Len(h))

\* a full deque that refused the new element instead
DequeAppendKeepOldest(h, x, maxlen) ==
    IF Len(h) >= maxlen THEN h ELSE Append(h, x)

\* collections.deque(maxlen).append(x): a full deque drops its oldest element
DequeAppend(h, x, maxlen) ==
    IF maxlen = 0 THEN <<>>
    ELSE IF Len(h) >= maxlen THEN Append(Tail(h), x)
    ELSE Append(h, x)

\* None, or a numpy array of the given shape (rows, columns), its cells row
\* by row
NoGrid == [ none |-> TRUE, shape |-> <<0, 0>>, cells |-> <<>> ]
Filled(shape, value) ==
    [ none |-> FALSE, shape |-> shape,
      cells |-> [i \in 1..(shape[1] * shape[2]) |-> value] ]
\* np.zeros(shape)
Zeros(shape) == Filled(shape, 0)
\* np.max of the cells of a grid
RECURSIVE MaxCell(_)
MaxCell(cells) ==
    IF cells = <<>> THEN 0 ELSE Max(Head(cells), MaxCell(Tail(cells)))
\* numpy broadcasting of `target += other`: a dimension of `other` is the
\* target's or 1; anything else raises ValueError
Broadcastable(target, other) ==
    \A d \in 1..2 : other.shape[d] = target.shape[d] \/ other.shape[d] = 1
\* the cell of `other` that is added to cell i of a grid of shape `shape`
BroadcastCell(shape, other, i) ==
    LET row == (i - 1) \div shape[2]
        col == (i - 1) % shape[2]
        r == IF other.shape[1] = 1 THEN 0 ELSE row
        c == IF other.shape[2] = 1 THEN 0 ELSE col
    IN  other.cells[r * other.shape[2] + c + 1]
\* target += other, where it broadcasts
AddGrid(target, other) ==
    [target EXCEPT !.cells = [i \in DOMAIN target.cells |->
                                 target.cells[i] + BroadcastCell(target.shape, other, i)]]
\* grid * factor and grid / divisor, in hundredths
ScaleGrid(grid, factor, divisor) ==
    [grid EXCEPT !.cells = [i \in DOMAIN grid.cells |->
                               (grid.cells[i] * factor) \div divisor]]

\* the Python slice lst[-n:]  (lst[-0:] is the whole list)
LastSlice(lst, n) ==
    IF n = 0 \/ n >= Len(lst) THEN lst
    ELSE SubSeq(lst, Len(lst) - n + 1, Len(lst))

\* x < offpeak_count, where offpeak_count may be float('inf')
LessThan(x, bound) == bound = INF \/ x < bound

\* format_time_for_filename: "HHhMMmSSsmmmms" as its four numbers
FormatTime(time_ms) ==
    LET total_seconds == time_ms \div 1000
    IN  <<total_seconds \div 3600, (total_seconds % 3600) \div 60,
          total_seconds % 60, time_ms % 1000>>

\* a slider that took any value asked for
NoClamp(lo, hi, value) == value

\* video_time_ms / 1000.0: whole seconds and thousandths
Seconds(time_ms) == <<time_ms \div 1000, time_ms % 1000>>

\* ModernBoxedSlider.setValue: the value is clamped into the slider's range
Clamp(lo, hi, value) == Max(lo, Min(hi, value))

-----------------------------------------------------------------------------
(* The objects after construction *)

\* CrowdSenseApp.__init__ and the widgets' first states
AppInit ==
    [ cap                     |-> "None",     \* "None" | "open" | "closed"
      yolo_ready              |-> FALSE,
      cap_frame               |-> "None",     \* the frames the opened file holds
      current_frame           |-> "None",     \* "None" | "frame" | "wide"
      paused                  |-> FALSE,
      people_count_history    |-> <<>>,
      smoothing_window_size   |-> DefaultWindow,
      smoothed_people_count   |-> 0,
      video_time_ms           |-> 0,
      last_frame_time         |-> 0,          \* 0, or 1 for a wall-clock instant
      crowd_detection_enabled |-> FALSE,
      crowd_size_threshold    |-> DefaultThreshold,
      threshold_alert_active  |-> FALSE,
      threshold_history       |-> <<>>,
      peak_count              |-> 0,
      peak_time_ms            |-> 0,
      offpeak_count           |-> INF,
      offpeak_time_ms         |-> 0,
      play_button             |-> TRUE,       \* isEnabled() of the four buttons
      pause_button            |-> FALSE,
      stop_button             |-> FALSE,
      restart_button          |-> FALSE,
      crowd_toggle            |-> FALSE,      \* isEnabled() of the toggle
      time_data               |-> <<>>,
      people_data             |-> <<>>,
      heatmap_enabled         |-> FALSE,
      heatmap_accumulator     |-> NoGrid,
      aggregate_heatmap_accumulator |-> NoGrid,
      aggregate_frame_count   |-> 0,
      last_detected_boxes     |-> <<>>,
      heatmap_toggle          |-> FALSE,      \* isEnabled()
      export_heatmap_button   |-> FALSE,      \* isEnabled()
      heatmap_updates         |-> 0,          \* calls of update_heatmap so far
      layers                  |-> <<>>,       \* the current heatmaps added to the
                                              \* aggregate grid since the counter was 0
      export_message          |-> "None",     \* the last message box of export_heatmap
      exported                |-> 0,          \* files written by export_heatmap
      aborted                 |-> FALSE,      \* an exception left a slot: qFatal
      end_playback_label      |-> FALSE ]     \* isVisible()

\* VideoFrameThread.__init__
VideoThreadInit == [ running |-> FALSE, paused |-> FALSE, cap |-> "None" ]

\* YoloDetectionThread.__init__; pc is the place of run() in its loop
YoloThreadInit ==
    [ running |-> FALSE, model |-> "None", frame_queue |-> <<>>,
      processing |-> FALSE, pc |-> "idle",
      frame |-> "None" ]                      \* the local `frame` of run()

\* the objects a slot reads and writes, with the two logs
World ==
    [ app |-> app, vt |-> video_thread, yt |-> yolo_thread,
      pushed |-> pushed, seen |-> seen, offered |-> offered, logging |-> logging ]

SetWorld(w) ==
    /\ app' = w.app
    /\ video_thread' = w.vt
    /\ yolo_thread' = w.yt
    /\ pushed' = w.pushed
    /\ seen' = w.seen
    /\ offered' = w.offered
    /\ UNCHANGED <<logging, pumping>>

-----------------------------------------------------------------------------
(* Threshold / alert state machine *)

\* an alert status that kept no record
UpdateWithoutRecord(a, alert_active, count) ==
    [a EXCEPT !.threshold_alert_active = alert_active]

UpdateCrowdAlertStatus(a, alert_active, count) ==
    IF alert_active
    THEN [a EXCEPT !.threshold_alert_active = TRUE,
                   !.threshold_history =
                        Append(@, [timestamp |-> FormatTime(a.video_time_ms),
                                   count     |-> count,
                                   threshold |-> a.crowd_size_threshold])]
    ELSE [a EXCEPT !.threshold_alert_active = FALSE]

\* a crossing that took equality for an excess
CheckThresholdReached(a) ==
    IF a.smoothed_people_count >= a.crowd_size_threshold
    THEN IF ~a.threshold_alert_active
         THEN UpdateCrowdAlertStatus(a, TRUE, a.smoothed_people_count)
         ELSE a
    ELSE IF a.threshold_alert_active
         THEN UpdateCrowdAlertStatus(a, FALSE, 0)
         ELSE a

CheckThresholdCrossing(a) ==
    IF a.smoothed_people_count > a.crowd_size_threshold
    THEN IF ~a.threshold_alert_active
         THEN UpdateCrowdAlertStatus(a, TRUE, a.smoothed_people_count)
         ELSE a
    ELSE IF a.threshold_alert_active
         THEN UpdateCrowdAlertStatus(a, FALSE, 0)
         ELSE a

\* a toggle that left the alert as it was
ToggleKeepsAlert(a, enabled) == [a EXCEPT !.crowd_detection_enabled = enabled]

OnCrowdDetectionToggled(a, enabled) ==
    LET b == [a EXCEPT !.crowd_detection_enabled = enabled]
    IN  IF ~enabled
        THEN [UpdateCrowdAlertStatus(b, FALSE, 0) EXCEPT !.threshold_alert_active = FALSE]
        ELSE b

\* a threshold change that carried the alert over
ThresholdKeepsAlert(a, value) == [a EXCEPT !.crowd_size_threshold = value]

OnCrowdSizeThresholdChanged(a, value) ==
    UpdateCrowdAlertStatus([a EXCEPT !.crowd_size_threshold = value], FALSE, 0)

-----------------------------------------------------------------------------
(* Smoothing window *)

\* the refill loop of on_smoothing_window_changed: a new deque(maxlen=value)
\* receives current_history[-value:]
RECURSIVE Refill(_, _, _)
Refill(h, rest, maxlen) ==
    IF rest = <<>> THEN h
    ELSE Refill(DequeAppend(h, Head(rest), maxlen), Tail(rest), maxlen)

\* a resize that kept the oldest samples instead
ResizeKeepOldest(current_history, value) ==
    SubSeq(current_history, 1, Min(value, Len(current_history)))

ResizeHistory(current_history, value) ==
    Refill(<<>>, LastSlice(current_history, value), value)

\* 1822-1836: the history h replaces the old one, the mean is taken again
Refilled(a, value, h) ==
    [a EXCEPT !.smoothing_window_size = value,
              !.people_count_history = h,
              !.smoothed_people_count = IF Len(h) > 0 THEN RoundMean(h) ELSE @]

\* 1838-1841
Recheck(b) ==
    IF b.crowd_detection_enabled /\ b.current_frame # "None"
    THEN CheckThresholdCrossing(b)
    ELSE b

OnSmoothingWindowChanged(a, value) ==
    Recheck(Refilled(a, value, ResizeHistory(a.people_count_history, value)))

-----------------------------------------------------------------------------
(* Applying a detection result *)

\* a smoothed count that followed the latest raw count
SmoothedLatest(a, h, people_count) ==
    [a EXCEPT !.people_count_history = h,
              !.smoothed_people_count = people_count]

\* 2810-2816: h is the history after the append
Smoothed(a, h, people_count) ==
    [a EXCEPT !.people_count_history = h,
              !.smoothed_people_count =
                    IF Len(h) > 0 THEN RoundMean(h) ELSE people_count]

PushCount(a, people_count) ==
    Smoothed(a, DequeAppend(a.people_count_history, people_count,
                            a.smoothing_window_size), people_count)

\* a peak that followed the latest sample that reaches it
TrackPeakLatest(a) ==
    IF a.smoothed_people_count >= a.peak_count
    THEN [a EXCEPT !.peak_count = a.smoothed_people_count,
                   !.peak_time_ms = a.video_time_ms]
    ELSE a

TrackPeak(a) ==
    IF a.smoothed_people_count > a.peak_count
    THEN [a EXCEPT !.peak_count = a.smoothed_people_count,
                   !.peak_time_ms = a.video_time_ms]
    ELSE a

\* an off-peak that took a count of zero
TrackOffpeakAnyCount(a) ==
    IF LessThan(a.smoothed_people_count, a.offpeak_count)
    THEN [a EXCEPT !.offpeak_count = a.smoothed_people_count,
                   !.offpeak_time_ms = a.video_time_ms]
    ELSE a

TrackOffpeak(a) ==
    IF LessThan(a.smoothed_people_count, a.offpeak_count)
       /\ a.smoothed_people_count > 0
    THEN [a EXCEPT !.offpeak_count = a.smoothed_people_count,
                   !.offpeak_time_ms = a.video_time_ms]
    ELSE a

\* 2818-2820
CheckIfEnabled(b) ==
    IF b.crowd_detection_enabled THEN CheckThresholdCrossing(b) ELSE b

\* update_people_graph (2206-2217); cap is "open" when cap.isOpened()
UpdatePeopleGraph(a, count) ==
    IF a.cap # "open" \/ a.paused THEN a
    ELSE [a EXCEPT !.time_data = Append(@, Seconds(a.video_time_ms)),
                   !.people_data = Append(@, count)]

\* 2826
Graphed(b) == UpdatePeopleGraph(b, b.smoothed_people_count)

\* ---- the heatmap (2071-2204)
\* frame.shape[:2] of the frames of the two videos
FrameShape(frame) == IF frame = "wide" THEN <<5, 10>> ELSE <<5, 5>>
\* 2113-2117: int(h * scale_factor), int(w * scale_factor)
LowShape(frame) ==
    << (FrameShape(frame)[1] * HeatmapScaleFactor) \div 100,
       (FrameShape(frame)[2] * HeatmapScaleFactor) \div 100 >>
\* 2147-2148: the feet of a box, in cells of the low-resolution grid
FootX(box) == (((box[1] + box[3]) * HeatmapScaleFactor) \div 2) \div 100
FootY(box) == (box[4] * HeatmapScaleFactor) \div 100
\* 2151
InGrid(shape, box) == FootX(box) < shape[2] /\ FootY(box) < shape[1]
\* 2139-2189: the points of the boxes whose feet are in the grid, blurred
\* three times and divided by their maximum.  The grids of the model are
\* narrower than the kernels (7, 17 and 31 cells), so the blur leaves every
\* cell at the mean of the grid, to the hundredth, and the division makes
\* it 1.0; with no point in the grid the cells stay 0.
CurrentHeatmap(shape, boxes) ==
    IF \E i \in 1..Len(boxes) : InGrid(shape, boxes[i])
    THEN Filled(shape, Unit) ELSE Zeros(shape)
\* 2120-2125
HeatmapCheckShape(a, low) ==
    IF ~a.heatmap_accumulator.none /\ a.heatmap_accumulator.shape # low
    THEN [a EXCEPT !.heatmap_accumulator = NoGrid,
                   !.aggregate_heatmap_accumulator = NoGrid,
                   !.aggregate_frame_count = 0,
                   !.layers = <<>>]
    ELSE a
\* 2127-2133
HeatmapInit(a, low) ==
    [a EXCEPT !.heatmap_accumulator = IF @.none THEN Zeros(low) ELSE @,
              !.aggregate_heatmap_accumulator = IF @.none THEN Zeros(low) ELSE @]
\* 2136
HeatmapDecayed(a) ==
    [a EXCEPT !.heatmap_accumulator = ScaleGrid(@, HeatmapDecay, 100)]
\* 2192
HeatmapAdd(a, current) ==
    [a EXCEPT !.heatmap_accumulator =
                  AddGrid(@, ScaleGrid(current, HeatmapIntensity, 100))]
\* an aggregate that counts every update, with or without a point in it
HeatmapCountsEmpty(a, current) ==
    [a EXCEPT !.aggregate_frame_count = @ + 1, !.layers = Append(@, current)]
\* 2195-2197; the += raises where the aggregate grid has another shape that
\* the current heatmap does not broadcast to
HeatmapAggregate(a, current) ==
    IF SumSeq(current.cells) = 0 THEN a
    ELSE IF Broadcastable(a.aggregate_heatmap_accumulator, current)
         THEN [a EXCEPT !.aggregate_heatmap_accumulator = AddGrid(@, current),
                        !.aggregate_frame_count = @ + 1,
                        !.layers = Append(@, current)]
         ELSE [a EXCEPT !.aborted = TRUE]
\* an update that leaves the maximum of the grid where it is
HeatmapNoCap(a) == a
\* 2200-2201
HeatmapCap(a) ==
    IF a.aborted \/ MaxCell(a.heatmap_accumulator.cells) <= Unit THEN a
    ELSE [a EXCEPT !.heatmap_accumulator =
                       ScaleGrid(@, Unit, MaxCell(@.cells))]
\* 2111-2204
HeatmapUpdated(a, low, current) ==
    HeatmapCap(HeatmapAggregate(HeatmapAdd(HeatmapDecayed(
        HeatmapInit(HeatmapCheckShape(a, low), low)), current), current))
UpdateHeatmap(a, frame, boxes) ==
    HeatmapUpdated([a EXCEPT !.heatmap_updates = @ + 1], LowShape(frame),
                   CurrentHeatmap(LowShape(frame), boxes))
\* 2071-2085
ProcessFrameWithHeatmap(a, frame, boxes) ==
    IF a.heatmap_enabled THEN UpdateHeatmap(a, frame, boxes) ELSE a
\* on_heatmap_toggled (2289-2309)
OnHeatmapToggled(a, enabled) ==
    LET b == [a EXCEPT !.heatmap_enabled = enabled,
                       !.export_heatmap_button = enabled]
    IN  IF b.paused /\ b.current_frame # "None" /\ Len(b.last_detected_boxes) > 0
        THEN ProcessFrameWithHeatmap(b, b.current_frame, b.last_detected_boxes)
        ELSE b
\* an export that goes on with no data
ExportUnguarded(a, chosen) ==
    IF chosen = 0 THEN a
    ELSE [a EXCEPT !.exported = @ + 1, !.export_message = "complete"]
\* export_heatmap (3023-3072); chosen = 1 when the user picks a directory
ExportHeatmap(a, chosen) ==
    IF a.aggregate_heatmap_accumulator.none \/ a.aggregate_frame_count <= 0
    THEN [a EXCEPT !.export_message = "no data"]
    ELSE IF chosen = 0 THEN a
    ELSE [a EXCEPT !.exported = @ + 1, !.export_message = "complete"]

\* 2806-2841
Counted(a, processed_frame, people_count, boxes) ==
    [TrackOffpeak(TrackPeak(Graphed(CheckIfEnabled(
        PushCount([a EXCEPT !.last_detected_boxes = boxes], people_count)))))
        EXCEPT !.current_frame = processed_frame]
DisplayDetectionResults(a, processed_frame, people_count, boxes) ==
    ProcessFrameWithHeatmap(Counted(a, processed_frame, people_count, boxes),
                            processed_frame, boxes)


-----------------------------------------------------------------------------
(* Slots of the main thread, cut at their pump points.                     *)
(*                                                                         *)
(* A frame [slot, pc, arg, loc] is one activation of a slot; Step(f, w)    *)
(* runs it from pc to its next pump point, nested call or return, and      *)
(* yields the world after, the frame after and how the segment ended.      *)

NoLocals == [ was_paused |-> FALSE, video_was_at_end |-> FALSE,
              video_was_running |-> FALSE ]

\* an activation whose signal carries a video frame and a list of boxes
FrameOf(slot, arg, frame, boxes) ==
    [ slot |-> slot, pc |-> 1, arg |-> arg, frame |-> frame, boxes |-> boxes,
      loc |-> NoLocals, wait |-> "run" ]

Frame(slot, arg) == FrameOf(slot, arg, "frame", <<>>)

\* the segment ended in QApplication.processEvents(); the slot goes on at pc
AtPump(w, f, pc) == [ w |-> w, f |-> [f EXCEPT !.pc = pc], kind |-> "pump", callee |-> f ]
\* the segment ended by calling another slot; the slot goes on at pc after it
AtCall(w, f, pc, callee) ==
    [ w |-> w, f |-> [f EXCEPT !.pc = pc], kind |-> "call", callee |-> callee ]
\* the slot returned (or raised)
AtReturn(w, f) == [ w |-> w, f |-> f, kind |-> "done", callee |-> f ]

\* VideoFrameThread.stop(): running = False, then wait() for run() to end
VideoThreadStop(vt) == [vt EXCEPT !.running = FALSE]

\* ---- display_detection_results (2800-2871): no pump point
Applied(w, a, people_count) ==
    [w EXCEPT !.app = a,
              !.pushed = IF w.logging THEN Append(@, people_count) ELSE @,
              !.seen = IF w.logging
                       THEN Append(@, <<a.smoothed_people_count, a.video_time_ms>>)
                       ELSE @]

DisplayStep(f, w) ==
    AtReturn(Applied(w, DisplayDetectionResults(w.app, f.frame, f.arg, f.boxes),
                     f.arg), f)

\* ---- the three crowd-detection widgets (1797-1841): no pump point
ToggleStep(f, w) ==
    AtReturn([w EXCEPT !.app = OnCrowdDetectionToggled(@, f.arg = 1)], f)

\* ModernBoxedSlider.setValue of the threshold slider, then its valueChanged slot
ThresholdSliderStep(f, w) ==
    LET value == Clamp(ThresholdMin, ThresholdMax, f.arg)
    IN  AtReturn(IF w.app.crowd_size_threshold # value
                 THEN [w EXCEPT !.app = OnCrowdSizeThresholdChanged(@, value)]
                 ELSE w, f)

\* ModernBoxedSlider.setValue of the smoothing slider, then its valueChanged slot
SmoothingSliderStep(f, w) ==
    LET value == Clamp(SmoothingMin, SmoothingMax, f.arg)
    IN  AtReturn(IF w.app.smoothing_window_size # value
                 THEN [w EXCEPT !.app = OnSmoothingWindowChanged(@, value)]
                 ELSE w, f)

\* ---- on_model_loaded (2410-2419), success
ModelLoadedStep(f, w) == AtReturn([w EXCEPT !.app.yolo_ready = TRUE], f)

\* ---- on_heatmap_toggled (2289-2309), export_heatmap (3023-3072)
HeatmapToggledStep(f, w) ==
    AtReturn([w EXCEPT !.app = OnHeatmapToggled(@, f.arg = 1)], f)
ExportHeatmapStep(f, w) ==
    AtReturn([w EXCEPT !.app = ExportHeatmap(@, f.arg)], f)

\* ---- on_video_ended (2672-2684)
VideoEndedStep(f, w) ==
    AtReturn([w EXCEPT !.app.paused = TRUE, !.vt.paused = TRUE,
                       !.app.end_playback_label = TRUE,
                       !.app.play_button = FALSE, !.app.pause_button = FALSE,
                       !.app.restart_button = TRUE], f)

\* ---- pause_video (2533-2546)
PauseStep(f, w) ==
    AtReturn(IF w.app.cap = "open"
             THEN IF ~w.app.paused
                  THEN [w EXCEPT !.app.paused = TRUE, !.vt.paused = TRUE,
                                 !.app.play_button = TRUE, !.app.pause_button = FALSE]
                  ELSE [w EXCEPT !.app.paused = FALSE, !.vt.paused = FALSE,
                                 !.app.play_button = FALSE, !.app.pause_button = TRUE]
             ELSE w, f)

\* ---- process_video_frame (2704-2750); f.arg is the wall-clock ms since
\* the previous frame.  video_thread.loop_detected is never set, so its
\* branch (2710-2724) is not taken.
ProcessFrameTimer(a, elapsed) ==
    [a EXCEPT !.video_time_ms =
                    IF a.last_frame_time > 0 /\ elapsed < ElapsedCap
                    THEN @ + elapsed ELSE @,
              !.last_frame_time = 1]

\* YoloDetectionThread.add_frame (452-454)
AddFrame(yt, frame) ==
    IF ~yt.processing THEN [yt EXCEPT !.frame_queue = <<frame>>] ELSE yt

ProcessFrameStore(w, frame) ==
    [w EXCEPT !.app.current_frame = frame,
              !.yt = IF w.app.yolo_ready THEN AddFrame(@, frame) ELSE @]

ProcessFrameStep(f, w) ==
    IF f.pc = 1
    THEN IF ~w.app.paused
         THEN AtPump([w EXCEPT !.app = ProcessFrameTimer(@, f.arg)], f, 2)
         ELSE AtReturn(ProcessFrameStore(w, f.frame), f)
    ELSE AtReturn(ProcessFrameStore(w, f.frame), f)

\* ---- stop_video (2548-2670)
\* 2550-2563
StopVideoA(w) ==
    [w EXCEPT !.app.paused = TRUE, !.vt.paused = TRUE,
              !.vt = IF @.running THEN VideoThreadStop(@) ELSE @]
\* 2565-2590
StopVideoB(w) ==
    [w EXCEPT !.yt.frame_queue = <<>>, !.yt.processing = FALSE,
              !.app.cap = "None", !.vt.cap = "None",
              !.app.paused = FALSE, !.app.current_frame = "None"]
\* 2592-2604
StopVideoC(w) ==
    [w EXCEPT !.app.people_count_history = <<>>,
              !.app.smoothed_people_count = 0,
              !.app.video_time_ms = 0, !.app.last_frame_time = 0,
              !.pushed = <<>>]
\* a reset that puts the peak back to 0 and keeps the off-peak
ResetPeakOnly(a) ==
    [a EXCEPT !.peak_count = 0, !.peak_time_ms = 0]
\* the reset of the peak tracker (2628-2632, 1963-1967)
ResetPeak(a) ==
    [a EXCEPT !.peak_count = 0, !.peak_time_ms = 0,
              !.offpeak_count = INF, !.offpeak_time_ms = 0]
\* the heatmap part of stop_video (2606-2609, 2653-2659)
StopHeatmap(a) ==
    [a EXCEPT !.heatmap_accumulator = NoGrid,
              !.aggregate_heatmap_accumulator = NoGrid,
              !.aggregate_frame_count = 0,
              !.layers = <<>>,
              !.heatmap_enabled = FALSE,
              !.heatmap_toggle = FALSE,
              !.export_heatmap_button = FALSE]
\* a stop that left the alert as it was
StopVideoKeepsAlert(w) ==
    [w EXCEPT !.app = [StopHeatmap(ResetPeak(w.app)) EXCEPT !.people_data = <<>>,
                                               !.time_data = <<>>,
                                               !.end_playback_label = FALSE,
                                               !.play_button = TRUE,
                                               !.pause_button = FALSE,
                                               !.stop_button = FALSE,
                                               !.restart_button = FALSE],
              !.seen = <<>>]
\* 2606-2669
StopVideoD(w) ==
    LET a == StopHeatmap(ResetPeak(w.app))
        b == [a EXCEPT !.threshold_alert_active = FALSE]
        c == IF b.crowd_detection_enabled
             THEN UpdateCrowdAlertStatus(b, FALSE, 0) ELSE b
    IN  [w EXCEPT !.app = [c EXCEPT !.people_data = <<>>, !.time_data = <<>>,
                                    !.end_playback_label = FALSE,
                                    !.play_button = TRUE, !.pause_button = FALSE,
                                    !.stop_button = FALSE, !.restart_button = FALSE],
                  !.seen = <<>>]

StopVideoStep(f, w) ==
    CASE f.pc = 1 ->
            IF w.vt.running
            THEN AtPump(StopVideoA(w), f, 2)
            ELSE AtPump(StopVideoB(StopVideoA(w)), f, 3)
      [] f.pc = 2 -> AtPump(StopVideoB(w), f, 3)
      [] f.pc = 3 -> AtPump(StopVideoC(w), f, 4)
      [] f.pc = 4 -> AtPump(StopVideoD(w), f, 5)
      [] OTHER    -> AtReturn(w, f)

\* ---- restart_video (1910-2051)
\* 1915-1935
RestartVideoA(w) ==
    [w EXCEPT !.app.end_playback_label = FALSE,
              !.app.paused = TRUE, !.vt.paused = TRUE,
              !.vt = IF @.running THEN VideoThreadStop(@) ELSE @]
\* 1937-1943
RestartVideoB(w) ==
    [w EXCEPT !.app.video_time_ms = 0, !.app.last_frame_time = 1]
\* restart_video clearing the smoothing history as stop_video does
RestartVideoClearsHistory(w) ==
    LET a == [w.app EXCEPT !.people_data = <<>>, !.time_data = <<>>,
                           !.people_count_history = <<>>,
                           !.smoothed_people_count = 0,
                           !.threshold_alert_active = FALSE,
                           !.heatmap_accumulator =
                               IF w.app.heatmap_enabled THEN NoGrid ELSE @]
        b == UpdateCrowdAlertStatus(a, FALSE, 0)
    IN  [w EXCEPT !.app = ResetPeak(b), !.seen = <<>>, !.pushed = <<>>]
\* 1945-1979
RestartVideoC(w) ==
    LET a == [w.app EXCEPT !.people_data = <<>>, !.time_data = <<>>,
                           !.threshold_alert_active = FALSE,
                           !.heatmap_accumulator =
                               IF w.app.heatmap_enabled THEN NoGrid ELSE @]
        b == UpdateCrowdAlertStatus(a, FALSE, 0)
    IN  [w EXCEPT !.app = ResetPeak(b), !.seen = <<>>]
\* 1981-2022: the first frame is read again and, with the model ready, the
\* people in it are detected at once; boxes is what the model finds
RestartFirstFrame(a, boxes) ==
    LET b == [a EXCEPT !.current_frame = a.cap_frame,
                       !.last_detected_boxes = IF a.yolo_ready THEN boxes ELSE @]
    IN  IF b.yolo_ready
        THEN ProcessFrameWithHeatmap(b, b.current_frame, boxes) ELSE b
\* 1981-2051
RestartVideoEnd(w, loc) ==
    LET was_paused == IF loc.video_was_at_end THEN FALSE ELSE loc.was_paused
    IN  [w EXCEPT !.vt = [ running |-> IF loc.video_was_running THEN TRUE ELSE @.running,
                           cap     |-> IF loc.video_was_running THEN "set" ELSE @.cap,
                           paused  |-> was_paused ],
                  !.app.paused = was_paused,
                  !.app.play_button = was_paused,
                  !.app.pause_button = ~was_paused]
RestartVideoD(w, loc, boxes) ==
    IF RestartFirstFrame(w.app, boxes).aborted
    THEN [w EXCEPT !.app = RestartFirstFrame(@, boxes)]
    ELSE RestartVideoEnd([w EXCEPT !.app = RestartFirstFrame(@, boxes)], loc)

RestartVideoStep(f, w) ==
    CASE f.pc = 1 ->
            IF w.app.cap # "open" THEN AtReturn(w, f)
            ELSE AtPump(RestartVideoA(w),
                        [f EXCEPT !.loc = [ was_paused |-> w.app.paused,
                                            video_was_at_end |-> w.app.end_playback_label,
                                            video_was_running |-> w.vt.running ]], 2)
         \* self.cap.set raises when a nested stop_video has set cap to None
      [] f.pc = 2 ->
            IF w.app.cap = "None" THEN AtReturn(w, f)
            ELSE AtPump(RestartVideoB(w), f, 3)
         \* self.cap.read raises likewise, after the resets of 1945-1979
      [] OTHER ->
            IF w.app.cap = "None" THEN AtReturn(RestartVideoC(w), f)
            ELSE AtReturn(RestartVideoD(RestartVideoC(w), f.loc, f.boxes), f)

\* ---- load_video_from_path (2431-2495); f.arg is 0 when the file does not
\* open, else the video in it
\* 2433-2448
LoadVideoA(w) ==
    [w EXCEPT !.vt = IF @.running THEN VideoThreadStop(@) ELSE @,
              !.app.cap = IF @ = "open" THEN "None" ELSE @,
              !.app.video_time_ms = 0, !.app.last_frame_time = 0]
\* YoloDetectionThread.start(): run() sets running and loads the model
YoloThreadStart(yt) ==
    [yt EXCEPT !.running = TRUE, !.pc = IF yt.model = "None" THEN "load" ELSE "idle"]
\* 2450-2471
LoadVideoB(w) ==
    [w EXCEPT !.app.people_data = <<>>, !.app.time_data = <<>>,
              !.yt = IF ~w.app.yolo_ready /\ ~@.running THEN YoloThreadStart(@) ELSE @]
\* 2473-2495
LoadVideoC(w) ==
    [w EXCEPT !.app.cap = "open",
              !.app.heatmap_toggle = TRUE,
              !.app.crowd_toggle = TRUE,
              !.vt = [ running |-> TRUE, cap |-> "set", paused |-> FALSE ],
              !.app.paused = FALSE,
              !.app.play_button = FALSE, !.app.pause_button = TRUE,
              !.app.stop_button = TRUE, !.app.restart_button = TRUE]

LoadVideoStep(f, w) ==
    IF f.pc = 1
    THEN AtPump(LoadVideoA(w), f, 2)
    ELSE IF f.arg >= 1
         THEN AtReturn([LoadVideoC(LoadVideoB(w)) EXCEPT
                            !.app.cap_frame = IF f.arg = 2 THEN "wide" ELSE "frame"], f)
         ELSE AtReturn([LoadVideoB(w) EXCEPT !.app.cap = "closed"], f)

\* ---- start_video (2497-2531); the selected source exists and opens
\* 2520-2526
StartVideoReset(w) ==
    [w EXCEPT !.app.people_data = <<>>, !.app.time_data = <<>>,
              !.app.video_time_ms = 0, !.app.last_frame_time = 0]
StartVideoStep(f, w) ==
    CASE f.pc = 1 ->
            IF w.app.cap = "open" /\ w.app.paused
            THEN AtReturn([w EXCEPT !.app.paused = FALSE, !.vt.paused = FALSE,
                                    !.app.play_button = FALSE,
                                    !.app.pause_button = TRUE], f)
            ELSE LET v == [w EXCEPT !.app.end_playback_label = FALSE]
                 IN  IF w.app.cap = "open"
                     THEN AtCall(v, f, 2, Frame("stop_video", 0))
                     ELSE AtPump(StartVideoReset(v), f, 3)
      [] f.pc = 2 -> AtPump(StartVideoReset(w), f, 3)
      [] f.pc = 3 ->
            AtCall([w EXCEPT !.app.restart_button = TRUE], f, 4,
                   Frame("load_video_from_path", 1))
      [] OTHER -> AtReturn(w, f)

Step(f, w) ==
    CASE f.slot = "display_detection_results" -> DisplayStep(f, w)
      [] f.slot = "on_crowd_detection_toggled" -> ToggleStep(f, w)
      [] f.slot = "people_threshold_slider"    -> ThresholdSliderStep(f, w)
      [] f.slot = "smoothing_slider"           -> SmoothingSliderStep(f, w)
      [] f.slot = "on_model_loaded"            -> ModelLoadedStep(f, w)
      [] f.slot = "on_video_ended"             -> VideoEndedStep(f, w)
      [] f.slot = "pause_video"                -> PauseStep(f, w)
      [] f.slot = "process_video_frame"        -> ProcessFrameStep(f, w)
      [] f.slot = "stop_video"                 -> StopVideoStep(f, w)
      [] f.slot = "restart_video"              -> RestartVideoStep(f, w)
      [] f.slot = "load_video_from_path"       -> LoadVideoStep(f, w)
      [] f.slot = "on_heatmap_toggled"         -> HeatmapToggledStep(f, w)
      [] f.slot = "export_heatmap"             -> ExportHeatmapStep(f, w)
      [] OTHER                                 -> StartVideoStep(f, w)

\* The main thread runs the frame on top of the stack (its last element)
\* until it is inside processEvents or the stack is empty.  A frame under the
\* top one waits for it: in a call, it goes on as soon as the callee returns;
\* in processEvents, it goes on when the pump returns.
RECURSIVE RunToPump(_, _)

\* r is how the segment of the top frame ended, rest the frames under it
AfterStep(r, rest) ==
    CASE r.kind = "pump" ->
            [ w |-> r.w, stack |-> Append(rest, [r.f EXCEPT !.wait = "pump"]) ]
      [] r.kind = "call" ->
            RunToPump(Append(Append(rest, [r.f EXCEPT !.wait = "call"]),
                             r.callee), r.w)
      [] OTHER ->
            IF rest # <<>> /\ rest[Len(rest)].wait = "call"
            THEN RunToPump(rest, r.w)
            ELSE [ w |-> r.w, stack |-> rest ]

RunToPump(stk, w) ==
    IF stk = <<>> THEN [ w |-> w, stack |-> stk ]
    ELSE AfterStep(Step([stk[Len(stk)] EXCEPT !.wait = "run"], w),
                   SubSeq(stk, 1, Len(stk) - 1))

\* The slot run to its end with no event delivered at its pump points
RECURSIVE RunToEnd(_, _)

AfterPump(r) == IF r.stack = <<>> THEN r.w ELSE RunToEnd(r.stack, r.w)

RunToEnd(stk, w) == AfterPump(RunToPump(stk, w))

Call(slot, arg, w) == RunToEnd(<<Frame(slot, arg)>>, w)


-----------------------------------------------------------------------------
(* The main thread and the events of the program.                          *)
(*                                                                         *)
(* With pumping = FALSE one event is handled at a time: its slot runs to   *)
(* the end and nothing else is pending while it pumps the event loop.      *)
(* With pumping = TRUE the worker threads post their signals to `events`,  *)
(* and a slot that is inside processEvents stays on `stack` while posted   *)
(* signals and user input are delivered to other slots.                    *)

InitWith(log, pump) ==
    /\ app = AppInit
    /\ video_thread = VideoThreadInit
    /\ yolo_thread = YoloThreadInit
    /\ events = <<>>
    /\ stack = <<>>
    /\ pushed = <<>>
    /\ seen = <<>>
    /\ offered = 0
    /\ logging = log
    /\ pumping = pump

\* slots on the stack that are inside processEvents
RECURSIVE Pumps(_)
Pumps(stk) ==
    IF stk = <<>> THEN 0
    ELSE (IF Head(stk).wait = "pump" THEN 1 ELSE 0) + Pumps(Tail(stk))

\* what keeps the model finite
WithinBounds(w, stk, evs) ==
    /\ Len(w.pushed) <= MaxPushes
    /\ Len(w.app.people_count_history) <= MaxPushes
    /\ Len(w.app.time_data) <= MaxPushes
    /\ Len(w.app.threshold_history) <= MaxAlerts
    /\ w.app.heatmap_updates <= MaxUpdates
    /\ w.app.exported <= MaxExports
    /\ w.app.video_time_ms <= TickMs * MaxLogTicks
    /\ Len(evs) <= MaxEvents
    /\ Pumps(stk) <= MaxNesting + 1

\* the main thread takes an event: at the top of the event loop, or inside
\* the processEvents of the slot on top of the stack
CanDispatch == ~app.aborted /\ Pumps(stack) <= MaxNesting

\* the event's slot is called in world w
\* the main thread is left in r.w with r.stack, evs are the signals pending
Commit(r, evs) ==
    /\ WithinBounds(r.w, r.stack, evs)
    /\ SetWorld(r.w)
    /\ stack' = r.stack
    /\ events' = evs

DispatchFrame(f, w, evs) ==
    /\ CanDispatch
    /\ Commit(IF pumping
              THEN RunToPump(Append(stack, f), w)
              ELSE [ w |-> RunToEnd(<<f>>, w), stack |-> stack ], evs)

Dispatch(slot, arg, w, evs) == DispatchFrame(Frame(slot, arg), w, evs)

\* VideoFrameThread.run (415-430) is reading frames
VideoThreadEmits ==
    /\ video_thread.running
    /\ ~video_thread.paused
    /\ video_thread.cap = "set"
    /\ app.cap = "open"

\* ---- user input

\* a file is dropped on the window or chosen in the dialog; ok = 1 when
\* cv2.VideoCapture opens it
LoadVideo == \E ok \in {0, 1} : Dispatch("load_video_from_path", ok, World, events)

PlayClicked == app.play_button /\ Dispatch("start_video", 0, World, events)
PauseClicked == app.pause_button /\ Dispatch("pause_video", 0, World, events)
StopClicked == app.stop_button /\ Dispatch("stop_video", 0, World, events)
RestartClicked == app.restart_button /\ Dispatch("restart_video", 0, World, events)

\* ToggleSwitch.mousePressEvent (165-174)
CrowdToggleClicked ==
    /\ app.crowd_toggle
    /\ Dispatch("on_crowd_detection_toggled",
                IF app.crowd_detection_enabled THEN 0 ELSE 1, World, events)

\* the two sliders are in crowd_settings_container, visible while crowd
\* detection is enabled (1805)
ThresholdSliderMoved ==
    /\ app.crowd_detection_enabled
    /\ \E value \in ThresholdValues :
          Dispatch("people_threshold_slider", value, World, events)

SmoothingSliderMoved ==
    /\ app.crowd_detection_enabled
    /\ \E value \in WindowValues :
          Dispatch("smoothing_slider", value, World, events)

\* smoothing_slider.setValue with a value outside the slider's range
SmoothingSliderSetValue ==
    /\ app.crowd_detection_enabled
    /\ \E value \in WindowRequests :
          Dispatch("smoothing_slider", value, World, events)

\* ---- the worker threads, one event at a time: the signal is delivered
\* as soon as it is emitted

\* YoloDetectionThread.load_model succeeds, model_loaded is delivered
ModelLoaded ==
    /\ yolo_thread.running /\ yolo_thread.pc = "load"
    /\ Dispatch("on_model_loaded", 0,
                [World EXCEPT !.yt.model = "loaded", !.yt.pc = "idle"], events)

\* the video thread reads a frame, frame_ready is delivered elapsed ms of
\* wall-clock time after the previous frame step
FrameReadyAfter(elapsed) ==
    /\ VideoThreadEmits
    /\ DispatchFrame(FrameOf("process_video_frame", elapsed, app.cap_frame, <<>>),
                     World, events)

FrameReady == \E elapsed \in ElapsedValues : FrameReadyAfter(elapsed)

\* every frame comes after a stall: the video time stays where it is
FrameStalled == FrameReadyAfter(ElapsedCap)

\* the video thread reads past the last frame, video_ended is delivered
VideoEnded ==
    /\ VideoThreadEmits
    /\ Dispatch("on_video_ended", 0, World, events)

\* the detection thread takes the queued frame (487-490), detects
\* people_count people in it and detection_ready is delivered (526-531)
DetectionReady ==
    /\ yolo_thread.running /\ yolo_thread.model = "loaded"
    /\ yolo_thread.frame_queue # <<>>
    /\ \E people_count \in RawCounts :
          DispatchFrame(FrameOf("display_detection_results", people_count,
                                Head(yolo_thread.frame_queue), <<>>),
                        [World EXCEPT !.yt.frame_queue = Tail(@)], events)

Next ==
    \/ LoadVideo
    \/ StopClicked
    \/ RestartClicked
    \/ CrowdToggleClicked
    \/ ThresholdSliderMoved
    \/ SmoothingSliderMoved
    \/ ModelLoaded
    \/ FrameStalled
    \/ VideoEnded
    \/ DetectionReady

Init == InitWith(FALSE, FALSE)

Spec == Init /\ [][Next]_vars

\* ---- the same events with the two logs kept and the threshold left alone

InitLog == InitWith(TRUE, FALSE)

NextLog ==
    \/ LoadVideo
    \/ PlayClicked
    \/ PauseClicked
    \/ StopClicked
    \/ RestartClicked
    \/ CrowdToggleClicked
    \/ SmoothingSliderMoved
    \/ SmoothingSliderSetValue
    \/ ModelLoaded
    \/ FrameReady
    \/ DetectionReady

SpecLog == InitLog /\ [][NextLog]_vars

\* ---- the worker threads beside the main thread: they post their signals

\* a signal is emitted: the activation of its slot is queued
PostFrame(f) ==
    /\ Len(events) < MaxEvents
    /\ events' = Append(events, f)

Post(sig, arg) == PostFrame(Frame(sig, arg))

\* VideoFrameThread.run: frame_ready.emit (423); the main thread gets to the
\* frame after a stall
VideoThreadFrame ==
    /\ VideoThreadEmits
    /\ PostFrame(FrameOf("process_video_frame", ElapsedCap, app.cap_frame, <<>>))
    /\ UNCHANGED <<app, video_thread, yolo_thread, stack, pushed, seen, offered, logging,
                 pumping>>

\* VideoFrameThread.run: frame_ready.emit (423); the main thread gets to the
\* frame TickMs after the previous one
VideoThreadTick ==
    /\ VideoThreadEmits
    /\ PostFrame(FrameOf("process_video_frame", TickMs, app.cap_frame, <<>>))
    /\ UNCHANGED <<app, video_thread, yolo_thread, stack, pushed, seen, offered, logging,
                 pumping>>

\* VideoFrameThread.run: video_ended.emit (427)
VideoThreadEnded ==
    /\ VideoThreadEmits
    /\ Post("on_video_ended", 0)
    /\ UNCHANGED <<app, video_thread, yolo_thread, stack, pushed, seen, offered, logging,
                 pumping>>

\* YoloDetectionThread.run, load_model (483-485, 464-478)
YoloThreadLoad ==
    /\ yolo_thread.running /\ yolo_thread.pc = "load"
    /\ yolo_thread' = [yolo_thread EXCEPT !.model = "loaded", !.pc = "idle"]
    /\ Post("on_model_loaded", 0)
    /\ UNCHANGED <<app, video_thread, stack, pushed, seen, offered, logging,
                 pumping>>

\* YoloDetectionThread.run: the frame is taken (488-490)
YoloThreadTake ==
    /\ yolo_thread.running /\ yolo_thread.pc = "idle"
    /\ yolo_thread.model = "loaded"
    /\ yolo_thread.frame_queue # <<>>
    /\ yolo_thread' = [yolo_thread EXCEPT !.processing = TRUE,
                                          !.frame = Head(yolo_thread.frame_queue),
                                          !.frame_queue = Tail(@),
                                          !.pc = "detect"]
    /\ UNCHANGED <<app, video_thread, events, stack, pushed, seen, offered, logging,
                 pumping>>

\* YoloDetectionThread.run: detection_ready.emit, processing = False (526-531)
YoloThreadEmit ==
    /\ yolo_thread.pc = "detect"
    /\ \E people_count \in RawCounts :
          PostFrame(FrameOf("display_detection_results", people_count,
                            yolo_thread.frame, <<>>))
    /\ yolo_thread' = [yolo_thread EXCEPT !.processing = FALSE, !.pc = "idle",
                                          !.frame = "None"]
    /\ UNCHANGED <<app, video_thread, stack, pushed, seen, offered, logging,
                 pumping>>

\* the main thread delivers the oldest posted signal to its slot
Deliver ==
    /\ events # <<>>
    /\ DispatchFrame(Head(events), World, Tail(events))

\* processEvents has delivered what was posted and returns to the slot on
\* top of the stack, which goes on
PumpReturn ==
    /\ stack # <<>>
    /\ events = <<>>
    /\ Commit(RunToPump(stack, World), events)

InitPump == InitWith(FALSE, TRUE)

NextPump ==
    \/ LoadVideo
    \/ StopClicked
    \/ RestartClicked
    \/ CrowdToggleClicked
    \/ VideoThreadFrame
    \/ VideoThreadEnded
    \/ YoloThreadLoad
    \/ YoloThreadTake
    \/ YoloThreadEmit
    \/ Deliver
    \/ PumpReturn

SpecPump == InitPump /\ [][NextPump]_vars

\* the pumping handlers with the threshold slider, so that the alert
\* can be active when stop_video reaches its calls of processEvents
NextPumpAlert ==
    \/ LoadVideo
    \/ StopClicked
    \/ CrowdToggleClicked
    \/ ThresholdSliderMoved
    \/ VideoThreadFrame
    \/ YoloThreadLoad
    \/ YoloThreadTake
    \/ YoloThreadEmit
    \/ Deliver
    \/ PumpReturn

SpecPumpAlert == InitPump /\ [][NextPumpAlert]_vars

\* the pumping handlers with a clock that advances and the pause button,
\* so that the graph holds a sample of a later video time when
\* restart_video sets the time back
NextPumpClock ==
    \/ LoadVideo
    \/ PauseClicked
    \/ RestartClicked
    \/ VideoThreadTick
    \/ YoloThreadLoad
    \/ YoloThreadTake
    \/ YoloThreadEmit
    \/ Deliver
    \/ PumpReturn

SpecPumpClock == InitPump /\ [][NextPumpClock]_vars

\* ---- the handoff of frames to the detection thread: the main thread
\* handles one event at a time, the run() loop of the detection thread goes
\* statement by statement beside it, and the frames offered are counted

\* frame_ready is delivered with the next frame of the video, and
\* process_video_frame hands it to add_frame (2744-2745)
FrameOffered ==
    /\ VideoThreadEmits
    /\ app.yolo_ready
    /\ offered < MaxOffers
    /\ DispatchFrame(FrameOf("process_video_frame", ElapsedCap,
                             FrameNames[offered + 1], <<>>),
                     [World EXCEPT !.offered = @ + 1], events)

\* YoloDetectionThread.run: the queue is found non-empty and processing is
\* set (487-488)
YoloThreadClaim ==
    /\ yolo_thread.running /\ yolo_thread.pc = "idle"
    /\ yolo_thread.model = "loaded"
    /\ yolo_thread.frame_queue # <<>>
    /\ yolo_thread' = [yolo_thread EXCEPT !.processing = TRUE, !.pc = "claim"]
    /\ UNCHANGED <<app, video_thread, events, stack, pushed, seen, offered, logging,
                 pumping>>

\* YoloDetectionThread.run: frame_queue.pop(0) (489); on an empty list it
\* raises IndexError outside the try block and run() ends
YoloThreadPop ==
    /\ yolo_thread.pc = "claim"
    /\ yolo_thread' =
          IF yolo_thread.frame_queue = <<>>
          THEN [yolo_thread EXCEPT !.pc = "dead"]
          ELSE [yolo_thread EXCEPT !.frame = Head(yolo_thread.frame_queue),
                                   !.frame_queue = Tail(@),
                                   !.pc = "detect"]
    /\ UNCHANGED <<app, video_thread, events, stack, pushed, seen, offered, logging,
                 pumping>>

\* YoloDetectionThread.run: detection_ready.emit, processing = False
\* (526-531), and the signal is delivered
DetectionDelivered ==
    /\ yolo_thread.pc = "detect"
    /\ \E people_count \in RawCounts :
          DispatchFrame(FrameOf("display_detection_results", people_count,
                                yolo_thread.frame, <<>>),
                        [World EXCEPT !.yt.processing = FALSE, !.yt.pc = "idle",
                                      !.yt.frame = "None"], events)

NextHandoff ==
    \/ LoadVideo
    \/ StopClicked
    \/ ModelLoaded
    \/ FrameOffered
    \/ YoloThreadClaim
    \/ YoloThreadPop
    \/ DetectionDelivered

SpecHandoff == Init /\ [][NextHandoff]_vars

\* ---- the heatmap: videos of two frame sizes, the heatmap toggle and the
\* export button, one event at a time

LoadVideoOf ==
    \E video \in Videos : Dispatch("load_video_from_path", video, World, events)

\* ToggleSwitch.mousePressEvent (165-174) of heatmap_toggle
HeatmapToggleClicked ==
    /\ app.heatmap_toggle
    /\ Dispatch("on_heatmap_toggled", IF app.heatmap_enabled THEN 0 ELSE 1,
                World, events)

\* the export button is clicked; chosen = 0 when the directory dialog is
\* cancelled
ExportHeatmapClicked ==
    /\ app.export_heatmap_button
    /\ \E chosen \in {0, 1} : Dispatch("export_heatmap", chosen, World, events)

\* the detection thread takes the queued frame, finds the people of boxes
\* in it and detection_ready is delivered (500-527)
DetectionWithBoxes ==
    /\ yolo_thread.running /\ yolo_thread.model = "loaded"
    /\ yolo_thread.frame_queue # <<>>
    /\ \E boxes \in BoxLists :
          DispatchFrame(FrameOf("display_detection_results", Len(boxes),
                                Head(yolo_thread.frame_queue), boxes),
                        [World EXCEPT !.yt.frame_queue = Tail(@)], events)

\* restart is clicked; boxes is what the model finds in the first frame
RestartWithBoxes ==
    /\ app.restart_button
    /\ \E boxes \in BoxLists :
          DispatchFrame(FrameOf("restart_video", 0, "frame", boxes), World, events)

NextHeatmap ==
    \/ LoadVideoOf
    \/ PauseClicked
    \/ StopClicked
    \/ RestartWithBoxes
    \/ HeatmapToggleClicked
    \/ ModelLoaded
    \/ FrameStalled
    \/ DetectionWithBoxes
    \/ ExportHeatmapClicked

SpecHeatmap == Init /\ [][NextHeatmap]_vars

\* ---- a feed of detection results applied one after the other, with crowd
\* detection enabled, a window of 3 and the threshold of __init__, from the
\* state after construction or from a freshly stopped state

ScenarioFeeds == [1..6 -> {3, 12}]

Constructed ==
    [ app |-> AppInit, vt |-> VideoThreadInit, yt |-> YoloThreadInit,
      pushed |-> <<>>, seen |-> <<>>, offered |-> 0, logging |-> TRUE ]

\* a video is loaded, the model is loaded, the toggle is switched on and the
\* smoothing slider is moved to 3
ScenarioSetup(w) ==
    Call("smoothing_slider", 3,
         Call("on_crowd_detection_toggled", 1,
              Call("on_model_loaded", 0,
                   [Call("load_video_from_path", 1, w)
                        EXCEPT !.yt.model = "loaded", !.yt.pc = "idle"])))

ScenarioStart(stopped) ==
    IF stopped
    THEN Call("stop_video", 0, ScenarioSetup(Constructed))
    ELSE ScenarioSetup(Constructed)

StartIn(w, feed) ==
    /\ app = w.app
    /\ video_thread = w.vt
    /\ yolo_thread = w.yt
    /\ pushed = w.pushed
    /\ seen = w.seen
    /\ offered = w.offered
    /\ logging = w.logging
    /\ pumping = FALSE
    /\ stack = <<>>
    /\ events = [ i \in DOMAIN feed |->
                    Frame("display_detection_results", feed[i]) ]

InitScenario ==
    \E feed \in ScenarioFeeds, stopped \in BOOLEAN :
        StartIn(ScenarioStart(stopped), feed)

\* the next detection result of the feed is applied
ScenarioApply ==
    /\ events # <<>>
    /\ SetWorld(RunToEnd(<<Head(events)>>, World))
    /\ events' = Tail(events)
    /\ UNCHANGED stack

SpecScenario == InitScenario /\ [][ScenarioApply]_vars

-----------------------------------------------------------------------------
(* Properties of the smoothing window and of the peak tracker, checked     *)
(* under SpecLog: pushed holds the raw counts applied since the history    *)
(* was last cleared, seen the <<smoothed count, video time>> pairs applied *)
(* since the peak tracker was last reset.                                  *)

\* the last k elements of s, for k <= Len(s)
Suffix(s, k) == SubSeq(s, Len(s) - k + 1, Len(s))

history == app.people_count_history
smoothed == app.smoothed_people_count
window == app.smoothing_window_size

\* C1 as stated: whenever the history is not empty the smoothed count is
\* the rounded mean of the history, and the history is the last
\* min(N, pushes since the last clear) raw counts.
C1_LastMinNOfPushes ==
    history # <<>> =>
        /\ smoothed = RoundMean(history)
        /\ history = Suffix(pushed, Min(window, Len(pushed)))

\* C1 amended: whenever the history is not empty the smoothed count is the
\* rounded mean of the history, and the history is the most recent
\* Len(history) raw counts pushed since the last clear, at most
\* min(N, pushes since the last clear) of them.
C1_MeanOfHeldSuffix ==
    /\ Len(history) <= Min(window, Len(pushed))
    /\ history = Suffix(pushed, Len(history))
    /\ history # <<>> => smoothed = RoundMean(history)

\* a push into a full window has dropped the oldest sample
C1_Witness == history # <<>> /\ Len(pushed) > window

\* C5: a resize to M leaves the last min(M, len(h)) elements of the
\* history h held before it, in their order.
C5_ResizeKeepsMostRecent ==
    [][SmoothingSliderMoved =>
          app'.people_count_history =
              Suffix(history, Min(app'.smoothing_window_size, Len(history)))]_vars

\* the window was shrunk to one sample and widened again: of the two
\* counts pushed, the newer one is held
C5_Witness == Len(pushed) = 2 /\ history = <<pushed[2]>> /\ window = 2

\* C19: the smoothing window size is at least 1 and at most 60 in every
\* state, whatever value was asked of the slider, and the history never
\* holds more samples than the window.
C19_WindowInRange ==
    /\ SmoothingMin <= window /\ window <= SmoothingMax
    /\ Len(history) <= window

\* the window is at the slider's minimum and holds the newer of two counts
C19_Witness ==
    window = SmoothingMin /\ Len(pushed) = 2 /\ history = <<pushed[2]>>

\* C20: on every frame step taken while not paused, e ms after the previous
\* frame step, the video time advances by min(e, 1000) ms.
C20_AdvanceByMinOfElapsed ==
    [][\A e \in ElapsedValues :
          FrameReadyAfter(e) /\ ~app.paused /\ app.last_frame_time > 0 =>
              app'.video_time_ms = app.video_time_ms + Min(e, ElapsedCap)]_vars

\* C6: the off-peak count is never 0: it is +infinity or positive.
C6_OffpeakNeverZero ==
    /\ app.offpeak_count # 0
    /\ app.offpeak_count = INF \/ app.offpeak_count > 0

\* smoothed counts of zero came first, then a positive one was taken
C6_Witness == seen # <<>> /\ seen[1][1] = 0 /\ app.offpeak_count > 0

SeenCounts == { seen[i][1] : i \in DOMAIN seen }
MaxSeen == CHOOSE m \in SeenCounts \cup {0} : \A n \in SeenCounts : n <= m
PositiveSeen == { n \in SeenCounts : n > 0 }
MinPositiveSeen == CHOOSE m \in PositiveSeen : \A n \in PositiveSeen : m <= n
\* the video time of the first sample whose smoothed count is n
FirstTimeOf(n) ==
    seen[CHOOSE i \in DOMAIN seen :
            /\ seen[i][1] = n
            /\ \A j \in DOMAIN seen : seen[j][1] = n => i <= j][2]

\* C7: the peak count is the largest smoothed count seen since the last
\* reset of the tracker (0 if none was above 0) and the peak time the video
\* time at which it was first reached; the off-peak count is the smallest
\* positive smoothed count seen (+infinity if none) with the time it was
\* first reached.
C7_RunningExtrema ==
    /\ app.peak_count = MaxSeen
    /\ app.peak_time_ms = IF MaxSeen = 0 THEN 0 ELSE FirstTimeOf(MaxSeen)
    /\ app.offpeak_count = IF PositiveSeen = {} THEN INF ELSE MinPositiveSeen
    /\ app.offpeak_time_ms =
            IF PositiveSeen = {} THEN 0 ELSE FirstTimeOf(MinPositiveSeen)

\* the largest count was seen twice, at two video times
C7_Witness ==
    /\ Len(seen) >= 2
    /\ seen[1][1] = MaxSeen /\ seen[2][1] = MaxSeen /\ MaxSeen > 0
    /\ seen[1][2] < seen[2][2]

-----------------------------------------------------------------------------
(* Properties of the alert state machine, checked under Spec.              *)

alert == app.threshold_alert_active
threshold == app.crowd_size_threshold
enabled == app.crowd_detection_enabled
records == app.threshold_history

C3_AlertAfterDetection ==
    [][DetectionReady /\ enabled =>
          (app'.threshold_alert_active <=>
              app'.smoothed_people_count > app'.crowd_size_threshold)]_vars

\* a result was applied, the smoothed count equals the threshold, no alert
C3_Witness ==
    /\ enabled /\ app.current_frame = "frame" /\ history # <<>>
    /\ smoothed = threshold /\ ~alert /\ records = <<>>

\* C9: the alert history grows by exactly one record on every step in which
\* the flag goes from inactive to active, and that record carries the
\* smoothed count and the threshold in force; no other step changes it.
C9_RecordOnRisingEdgeOnly ==
    [][IF ~alert /\ app'.threshold_alert_active
       THEN /\ Len(app'.threshold_history) = Len(records) + 1
            /\ SubSeq(app'.threshold_history, 1, Len(records)) = records
            /\ app'.threshold_history[Len(records) + 1].count =
                    app'.smoothed_people_count
            /\ app'.threshold_history[Len(records) + 1].threshold =
                    app'.crowd_size_threshold
       ELSE app'.threshold_history = records]_vars

\* one alert was raised and is over
C9_Witness == Len(records) = 1 /\ ~alert /\ enabled /\ smoothed <= threshold

\* C10: on_crowd_detection_toggled(False) leaves the alert inactive and
\* appends no record; the threshold, the smoothing history and the smoothed
\* count are as before.
C10_DisableForcesNormal ==
    [][CrowdToggleClicked /\ enabled =>
          /\ ~app'.crowd_detection_enabled
          /\ ~app'.threshold_alert_active
          /\ app'.threshold_history = records
          /\ app'.crowd_size_threshold = threshold
          /\ app'.people_count_history = history
          /\ app'.smoothed_people_count = smoothed]_vars

\* crowd detection is off and the alert inactive, after an alert, while the
\* smoothed count is above the threshold
C10_Witness == ~enabled /\ ~alert /\ Len(records) = 1 /\ smoothed > threshold

\* the threshold slider took a new value
ThresholdChanged == ThresholdSliderMoved /\ app'.crowd_size_threshold # threshold

\* the flag goes from inactive to active
RisingEdge == ~alert /\ app'.threshold_alert_active

\* C11 as stated: a change of the threshold leaves the alert inactive and
\* appends no record; the alert becomes active again only in the step that
\* applies a detection result, and after that step it is active exactly if
\* crowd detection is enabled and the smoothed count is above the threshold.
C11_ReevaluatedOnDetectionOnly ==
    [][/\ ThresholdChanged =>
              ~app'.threshold_alert_active /\ app'.threshold_history = records
       /\ RisingEdge => DetectionReady
       /\ DetectionReady =>
              (app'.threshold_alert_active <=>
                  /\ app'.crowd_detection_enabled
                  /\ app'.smoothed_people_count > app'.crowd_size_threshold)]_vars

\* C11 amended: a change of the threshold leaves the alert inactive and
\* appends no record; the alert becomes active again in the step that
\* applies a detection result or in a change of the smoothing window, and
\* after a detection result it is active exactly if crowd detection is
\* enabled and the smoothed count is above the threshold.
C11_ReevaluatedOnDetectionOrResize ==
    [][/\ ThresholdChanged =>
              ~app'.threshold_alert_active /\ app'.threshold_history = records
       /\ RisingEdge => DetectionReady \/ SmoothingSliderMoved
       /\ DetectionReady =>
              (app'.threshold_alert_active <=>
                  /\ app'.crowd_detection_enabled
                  /\ app'.smoothed_people_count > app'.crowd_size_threshold)]_vars

\* an alert was recorded under another threshold; the smoothed count is above
\* the threshold in force and the alert is inactive
C11_Witness ==
    /\ enabled /\ ~alert /\ smoothed > threshold
    /\ Len(records) = 1 /\ records[1].threshold # threshold

-----------------------------------------------------------------------------
(* The end-to-end scenario, checked under SpecScenario.                    *)

ScenarioCounts == <<3, 3, 3, 12, 12, 12>>
ScenarioSmoothed == <<3, 3, 3, 6, 9, 12>>

\* C4: with crowd detection enabled, a window of 3 and a threshold of 10,
\* the raw counts 3,3,3,12,12,12 give the smoothed counts 3,3,3,6,9,12; the
\* alert is entered once, on the sixth sample, with one history record; the
\* peak count is then 12 and the off-peak count 3.
C4_EndToEnd ==
    (Len(pushed) <= 6 /\ pushed = SubSeq(ScenarioCounts, 1, Len(pushed))) =>
        /\ Len(seen) = Len(pushed)
        /\ \A i \in DOMAIN seen : seen[i][1] = ScenarioSmoothed[i]
        /\ Len(pushed) < 6 => ~alert /\ records = <<>>
        /\ Len(pushed) = 6 =>
              /\ alert
              /\ Len(records) = 1
              /\ records[1].count = 12 /\ records[1].threshold = 10
              /\ app.peak_count = 12
              /\ app.offpeak_count = 3

\* the six counts were applied
C4_Witness == pushed = ScenarioCounts /\ alert /\ window = 3 /\ threshold = 10

-----------------------------------------------------------------------------
(* The resets of stop_video and restart_video, checked under SpecPump.     *)

Top == stack[Len(stack)]

\* the slot on top of the stack, inside its processEvents at pc, returns
Completes(slot, pc) ==
    /\ stack # <<>>
    /\ Top.slot = slot /\ Top.pc = pc
    /\ Len(stack') < Len(stack)

PeakIsReset(a) ==
    /\ a.peak_count = 0 /\ a.peak_time_ms = 0
    /\ a.offpeak_count = INF /\ a.offpeak_time_ms = 0

\* C8: whenever stop_video or restart_video completes, the peak count is 0,
\* the off-peak count +infinity and both time stamps are 0.
C8_ResetOnCompletion ==
    [][Completes("stop_video", 5) \/ Completes("restart_video", 3)
          => PeakIsReset(app')]_vars

time_data == app.time_data
people_data == app.people_data

\* one (video time in seconds, smoothed count) pair is appended
PairAppended ==
    /\ app'.time_data = Append(time_data, Seconds(app'.video_time_ms))
    /\ app'.people_data = Append(people_data, app'.smoothed_people_count)

\* both sequences are emptied
SeriesEmptied == app'.time_data = <<>> /\ app'.people_data = <<>>

\* C12: time_data and people_data have equal length in every state; a step
\* leaves them as they are, appends one (video time in seconds, smoothed
\* count) pair or empties both; both are empty when stop_video and when
\* restart_video completes.
C12_ParallelSeries ==
    /\ [](Len(time_data) = Len(people_data))
    /\ [][/\ \/ (app'.time_data = time_data /\ app'.people_data = people_data)
             \/ PairAppended
             \/ SeriesEmptied
          /\ Completes("stop_video", 5) \/ Completes("restart_video", 3)
                => SeriesEmptied]_vars

\* the main thread begins to apply a detection result
DetectionBegins ==
    /\ events # <<>>
    /\ Head(events).slot = "display_detection_results"
    /\ Deliver

\* an activation of slot has started and not returned
InProgress(slot) == \E i \in DOMAIN stack : stack[i].slot = slot

\* C16: the application of a detection result never begins while a
\* stop_video, a restart_video or another application of a detection result
\* has started and not finished.
C16_OneMutationAtATime ==
    [][DetectionBegins =>
          /\ ~InProgress("stop_video")
          /\ ~InProgress("restart_video")
          /\ ~InProgress("display_detection_results")]_vars

-----------------------------------------------------------------------------
(* The handoff of frames, checked under SpecHandoff: frame number n of     *)
(* FrameNames is the n-th frame handed to add_frame.                       *)

\* C17: the frame queue never holds more than one frame, and the frame the
\* detection thread takes is the one most recently handed to add_frame.
C17_LatestFrameWins ==
    /\ [](Len(yolo_thread.frame_queue) <= 1)
    /\ [][YoloThreadPop /\ yolo_thread.frame_queue # <<>> =>
              yolo_thread'.frame = FrameNames[offered]]_vars

-----------------------------------------------------------------------------
(* The heatmap, checked under SpecHeatmap                                  *)

decaying == app.heatmap_accumulator
aggregate == app.aggregate_heatmap_accumulator

\* C13: every cell of the decaying grid lies in [0, 1] (0 to Unit
\* hundredths) in every state, whatever updates and resets came before.
C13_DecayingGridInUnitRange ==
    \A i \in DOMAIN decaying.cells :
        decaying.cells[i] >= 0 /\ decaying.cells[i] <= Unit

\* a second update has brought a cell over 1.0 and the grid was divided by
\* its maximum
C13_Witness ==
    /\ ~decaying.none
    /\ app.heatmap_updates >= 2
    /\ \E i \in DOMAIN decaying.cells : decaying.cells[i] = Unit

\* a step in which update_heatmap is called
HeatmapUpdates == app'.heatmap_updates = app.heatmap_updates + 1

\* the dimensions of the update before, as the grids in use hold them
PreviousShape == IF ~decaying.none THEN decaying.shape ELSE aggregate.shape

\* the call is for a frame whose downscaled dimensions are not those of the
\* update before
ResolutionChanges ==
    /\ HeatmapUpdates
    /\ ~decaying.none \/ ~aggregate.none
    /\ PreviousShape # LowShape(app'.current_frame)

\* the grids after the call hold the contribution of this frame and nothing
\* else
OnlyThisFrame ==
    LET low == LowShape(app'.current_frame)
        current == CurrentHeatmap(low, app'.last_detected_boxes)
    IN  /\ app'.heatmap_accumulator = ScaleGrid(current, HeatmapIntensity, 100)
        /\ app'.aggregate_heatmap_accumulator = current
        /\ app'.aggregate_frame_count = IF SumSeq(current.cells) > 0 THEN 1 ELSE 0

\* C14: an update for a frame whose downscaled dimensions differ from those
\* of the update before starts from all-zero grids of the new dimensions
\* and a frame counter of 0: after it the grids hold this frame only.
C14_ResolutionChangeResets == [][ResolutionChanges => OnlyThisFrame]_vars

\* a grid with no density in it
Empty(grid) == grid.none \/ SumSeq(grid.cells) = 0

\* neither grid holds density after the step and the frame counter is 0
HeatmapIsReset ==
    /\ Empty(app'.heatmap_accumulator)
    /\ Empty(app'.aggregate_heatmap_accumulator)
    /\ app'.aggregate_frame_count = 0

\* C15: when stop_video has run, both grids are without density and the
\* aggregate frame counter is 0; when restart_video has run on an open
\* video, the same holds but for the first frame, which restart_video
\* applies after its reset.  (The loop branch of process_video_frame is
\* never taken: nothing sets loop_detected.)
C15_ResetOnStopAndRestart ==
    [][/\ StopClicked => HeatmapIsReset
       /\ RestartWithBoxes /\ app.cap = "open" =>
              IF HeatmapUpdates THEN OnlyThisFrame ELSE HeatmapIsReset]_vars

\* the aggregate grid is absent or no frame has contributed to it
NoHeatmapData == aggregate.none \/ app.aggregate_frame_count <= 0

\* C18: export_heatmap with no contributing frame shows the "no data"
\* message and changes nothing else: no file is written and the state of
\* the application and of its threads stays as it was.
C18_ExportWithoutData ==
    [][ExportHeatmapClicked /\ NoHeatmapData =>
          /\ app' = [app EXCEPT !.export_message = "no data"]
          /\ UNCHANGED <<video_thread, yolo_thread, events, stack>>]_vars

\* the export was asked for with an aggregate grid of zeros and a frame
\* counter of 0, and nothing was written
C18_Witness ==
    /\ app.export_message = "no data"
    /\ ~aggregate.none /\ app.aggregate_frame_count = 0
    /\ app.exported = 0

\* the cell-wise sum of grids of one shape, from zeros of that shape
RECURSIVE SumOfLayers(_, _)
SumOfLayers(layers, shape) ==
    IF layers = <<>> THEN Zeros(shape)
    ELSE AddGrid(SumOfLayers(Tail(layers), shape), Head(layers))

\* C21: with an aggregate frame counter k > 0, k current heatmaps have
\* been added since the counter was 0, each has the dimensions of the
\* aggregate grid and a maximum of 1.0, the aggregate grid is their
\* cell-wise sum, and every cell of the aggregate divided by k is in [0, 1].
C21_AggregateIsSumOfLayers ==
    app.aggregate_frame_count > 0 =>
        /\ Len(app.layers) = app.aggregate_frame_count
        /\ \A n \in DOMAIN app.layers :
              /\ app.layers[n].shape = aggregate.shape
              /\ MaxCell(app.layers[n].cells) = Unit
        /\ aggregate = SumOfLayers(app.layers, aggregate.shape)
        /\ \A i \in DOMAIN aggregate.cells :
              /\ aggregate.cells[i] >= 0
              /\ aggregate.cells[i] <= Unit * app.aggregate_frame_count

\* C22: in every state in which both grids exist they have the same
\* dimensions, and no update has raised by adding a current heatmap to an
\* aggregate grid of other dimensions.
C22_GridsOfOneShape ==
    /\ ~decaying.none /\ ~aggregate.none => decaying.shape = aggregate.shape
    /\ ~app.aborted

\* the step changes a heatmap grid or the aggregate frame counter
HeatmapContribution ==
    \/ HeatmapUpdates
    \/ app'.aggregate_frame_count > app.aggregate_frame_count

\* C23: a contribution to the heatmap grids or an increment of the
\* aggregate frame counter is made only by the step that applies a
\* detection result delivered by the detection thread, once per result;
\* the heatmap toggle and restart_video make none.
C23_OneContributionPerResult ==
    [][/\ HeatmapContribution => DetectionWithBoxes
       /\ app'.heatmap_updates <= app.heatmap_updates + 1
       /\ app'.aggregate_frame_count <= app.aggregate_frame_count + 1]_vars

\* the dimensions of the frame of the update and its current heatmap
UpdateShape == LowShape(app'.current_frame)
UpdateLayer == CurrentHeatmap(UpdateShape, app'.last_detected_boxes)

\* update_heatmap is called and no box has its feet in the grid
EmptyLayerUpdate == HeatmapUpdates /\ SumSeq(UpdateLayer.cells) = 0

\* the decaying grid as update_heatmap finds it: restart_video has set it
\* to None before its call
DecayingAtCall == IF RestartWithBoxes THEN NoGrid ELSE decaying

\* the call finds a decaying grid of other dimensions than the frame's
ResetByCall == ~DecayingAtCall.none /\ DecayingAtCall.shape # UpdateShape

\* the aggregate grid and its counter are as before (zeros for None), the
\* decaying grid is the one the call found times the decay constant
OnlyDecayed ==
    /\ app'.aggregate_heatmap_accumulator =
            IF aggregate.none THEN Zeros(UpdateShape) ELSE aggregate
    /\ app'.aggregate_frame_count = app.aggregate_frame_count
    /\ app'.heatmap_accumulator =
            IF DecayingAtCall.none THEN Zeros(UpdateShape)
            ELSE ScaleGrid(DecayingAtCall, HeatmapDecay, 100)

\* no cell of the aggregate grid decreases while the grid is kept: the
\* step is not a reset, by stop_video (the grid is None afterwards) or by
\* an update that finds a decaying grid of other dimensions
AggregateGrows ==
    ~aggregate.none /\ ~app'.aggregate_heatmap_accumulator.none
        /\ app'.aggregate_heatmap_accumulator.shape = aggregate.shape
        /\ ~(HeatmapUpdates /\ ResetByCall)
    => \A i \in DOMAIN aggregate.cells :
           app'.aggregate_heatmap_accumulator.cells[i] >= aggregate.cells[i]

\* C24 as stated: every update with an empty current heatmap leaves the
\* aggregate grid and the frame counter as they are and only decays the
\* decaying grid; the cells of the aggregate grid never decrease between
\* resets.
C24_EmptyLayerOnlyDecays ==
    [][(EmptyLayerUpdate => OnlyDecayed) /\ AggregateGrows]_vars

\* C24 amended: the same for every update with an empty current heatmap
\* that finds no decaying grid of other dimensions than the frame's (such
\* a call first resets both grids and the counter).
C24_EmptyLayerOnlyDecaysSameShape ==
    [][(EmptyLayerUpdate /\ ~ResetByCall => OnlyDecayed) /\ AggregateGrows]_vars

\* an update with nobody in the grid has decayed a cell from 0.60 to 0.59
\* and left the one contribution of the aggregate grid
C24_Witness ==
    /\ ~decaying.none /\ decaying.cells[1] = 59
    /\ ~aggregate.none /\ aggregate.cells[1] = Unit
    /\ app.aggregate_frame_count = 1 /\ app.heatmap_updates = 2

-----------------------------------------------------------------------------
(* The detection thread beside stop_video, checked under SpecHandoff       *)

\* C25: whenever the detection thread executes frame_queue.pop(0), the
\* queue holds a frame.
C25_PopFindsAFrame ==
    [][YoloThreadPop => yolo_thread.frame_queue # <<>>]_vars

\* C26: while no capture is open (before the first video and from the
\* return of stop_video to the next load), no detection result has been
\* applied: the smoothing history is empty, the smoothed count and the
\* peak count are 0 and the off-peak count is +infinity.
C26_NoResultAfterStop ==
    app.cap = "None" =>
        /\ app.people_count_history = <<>>
        /\ app.smoothed_people_count = 0
        /\ app.peak_count = 0
        /\ app.offpeak_count = INF

-----------------------------------------------------------------------------
(* The alert while stop_video pumps the event loop, under SpecPumpAlert    *)

\* C27: in every state, if the alert flag is active then crowd detection
\* is enabled and the smoothed count is strictly above the threshold.
C27_AlertImpliesEnabledAndAbove ==
    alert => enabled /\ smoothed > threshold

-----------------------------------------------------------------------------
(* restart_video and the smoothing window, checked under SpecLog           *)

\* C28: restart_video leaves the smoothing history, the smoothed count
\* and the window size as they were, and a history that holds counts is
\* emptied by stop_video only.
C28_RestartKeepsHistory ==
    [][/\ RestartClicked =>
             /\ history' = history
             /\ smoothed' = smoothed
             /\ window' = window
       /\ (history # <<>> /\ history' = <<>>) => StopClicked]_vars

\* a count of 5 pushed before a restart is averaged with the 0 pushed
\* after it: two counts since the last clear, one since the peak tracker
\* was reset
C28_Witness ==
    /\ history = <<5, 0>> /\ pushed = <<5, 0>>
    /\ smoothed = 2 /\ Len(seen) = 1
    /\ app.cap # "None"

\* C29: whenever the off-peak count is finite it is positive and at most
\* the peak count.
C29_OffpeakAtMostPeak ==
    app.offpeak_count # INF =>
        /\ 0 < app.offpeak_count
        /\ app.offpeak_count <= app.peak_count

\* after a restart has reset the tracker, the first smoothed count, 2 (the
\* mean of the 5 pushed before the restart and the 0 pushed after it), is
\* both the peak and the off-peak
C29_Witness ==
    /\ app.offpeak_count = 2 /\ app.peak_count = 2
    /\ Len(pushed) = 2 /\ Len(seen) = 1

-----------------------------------------------------------------------------
(* The times of the graph while restart_video pumps the event loop,        *)
(* checked under SpecPumpClock                                             *)

\* the order of two video times given as <<seconds, milliseconds>>
TimeLeq(a, b) == a[1] < b[1] \/ (a[1] = b[1] /\ a[2] <= b[2])

\* C30: in every state the times of time_data are in non-decreasing
\* order.
C30_TimesNonDecreasing ==
    \A i \in 1..(Len(time_data) - 1) : TimeLeq(time_data[i], time_data[i + 1])

=============================================================================
